---------------------------- MODULE Spec2Model ----------------------------
(***************************************************************************)
(* Chain synchronizer of the GODcoin wallet (class Synchronizer) and its    *)
(* settings store (class Settings).                                        *)
(*                                                                         *)
(* The synchronizer runs on one JavaScript event loop.  Every action below *)
(* is one macrotask: an event handler, or the continuation of an async     *)
(* function from one real I/O completion up to its next real I/O await.    *)
(* An await of an already settled promise only yields to microtasks, so    *)
(* no event can be delivered there and the code around it is one step.     *)
(*                                                                         *)
(* Environment (not code of the class): the remote node produces blocks,   *)
(* answers RPCs and pushes new blocks to a subscribed connection over one  *)
(* ordered channel; the database completes each statement on its own, in   *)
(* no fixed order; getBlockRange calls its callback once per block in      *)
(* ascending order without waiting for the promise the callback returns.   *)
(*                                                                         *)
(* The module also holds the settings store (Settings.save, Settings.load) *)
(* that the same process uses.  Its calls are synchronous; an action is    *)
(* one file operation.  Environment: the file system keeps the effect of   *)
(* every operation that returned, in program order; the process can end    *)
(* between two operations and inside writeFileSync, which then leaves a    *)
(* prefix of the image; decrypt rejects a truncated image and an image     *)
(* made with another password.                                             *)
(***************************************************************************)
EXTENDS Integers, Sequences, FiniteSets, TLC

(* ------------------------------ bounds --------------------------------- *)
MaxHeight == 2      \* blocks the remote produces
MaxTasks  == 2      \* startSync invocations that get past the guard
MaxCloses == 2      \* transport close events
MaxFails  == 1      \* requests that fail on a connection that is still up
MaxLate   == 1      \* range callbacks that find more than 5 seconds elapsed
MaxTxs    == 2      \* transactions of a block, in the runs that vary block 1
MaxCrashes == 2     \* terminations of the process inside save or load
ImageLen  == 3      \* bytes of a serialized settings image, version field included

(* --------------------------- program values ---------------------------- *)
Connecting == "Connecting"
InProgress == "InProgress"
Complete   == "Complete"
SyncStatus == {Connecting, InProgress, Complete}

watchAddrs == <<"A", "B">>

Heights == 1..MaxHeight
TaskIds == 1..MaxTasks

(* ------------------------------ the chain ------------------------------ *)
TransferTxV0(f, t) == [variant |-> "TransferTxV0", from |-> f, to |-> t, minter |-> "-", script |-> "-"]
RewardTxV0(t)      == [variant |-> "RewardTxV0",   from |-> "-", to |-> t, minter |-> "-", script |-> "-"]
MintTxV0(t)        == [variant |-> "MintTxV0",     from |-> "-", to |-> t, minter |-> "-", script |-> "-"]
OwnerTxV0(m, s)    == [variant |-> "OwnerTxV0",    from |-> "-", to |-> "-", minter |-> m, script |-> s]

\* The remote's chain: the transactions of the block at each height, in order.
\* It is fixed when a run starts.
VARIABLE blocks

Block(h) == blocks[h]

\* The chain of the runs that do not vary it: the block at height h.
Chain(h) ==
  CASE h % 3 = 1 -> <<TransferTxV0("A", "C"), MintTxV0("D")>>
    [] h % 3 = 2 -> <<TransferTxV0("C", "D")>>
    [] OTHER     -> <<TransferTxV0("B", "A"), RewardTxV0("B")>>

\* Balance of address a before the first block.
GenesisBalance(a) == IF a \in {"A", "B"} THEN 5 ELSE 0

\* A transaction of a class this client does not know.
UnknownTx == [variant |-> "Unknown", from |-> "-", to |-> "-", minter |-> "-", script |-> "-"]

\* Transactions of every variant, over watched (A, B) and other (C, D) addresses.
TxSet ==
  {TransferTxV0("A", "B"), TransferTxV0("A", "C"), TransferTxV0("C", "B"), TransferTxV0("C", "D"),
   MintTxV0("A"), MintTxV0("C"), RewardTxV0("B"), RewardTxV0("D"),
   OwnerTxV0("A", "C"), OwnerTxV0("C", "B"), OwnerTxV0("C", "D")}

\* The blocks of at most MaxTxs transactions.
BlockSet == UNION {[1..n -> TxSet] : n \in 0..MaxTxs}

(* --------------------------- Block Applier ----------------------------- *)
isWatched(addr) == \E n \in 1..Len(watchAddrs) : watchAddrs[n] = addr

\* Faulty variant of txHasMatch: a transfer is matched by its destination only.
txHasMatchTo(tx) ==
  CASE tx.variant = "OwnerTxV0"    -> isWatched(tx.minter) \/ isWatched(tx.script)
    [] tx.variant = "MintTxV0"     -> isWatched(tx.to)
    [] tx.variant = "RewardTxV0"   -> isWatched(tx.to)
    [] tx.variant = "TransferTxV0" -> isWatched(tx.to)

txHasMatch(tx) ==
  CASE tx.variant = "OwnerTxV0"    -> isWatched(tx.minter) \/ isWatched(tx.script)
    [] tx.variant = "MintTxV0"     -> isWatched(tx.to)
    [] tx.variant = "RewardTxV0"   -> isWatched(tx.to)
    [] tx.variant = "TransferTxV0" -> isWatched(tx.from) \/ isWatched(tx.to)

\* txHasMatch falls through its instanceof tests and throws ('exhaustive check
\* failed') for a transaction of none of the four classes.
Recognized(tx) == tx.variant \in {"OwnerTxV0", "MintTxV0", "RewardTxV0", "TransferTxV0"}

\* Index of the first transaction of block h at or after i that txHasMatch
\* throws on; 0 if none.
FirstUnknown(h, i) ==
  LET c == {j \in i..Len(Block(h)) : ~Recognized(Block(h)[j])}
  IN  IF c = {} THEN 0 ELSE CHOOSE j \in c : \A k \in c : j <= k

\* Index of the first transaction of block h at or after i that matches, the
\* loop of applyBlock getting that far; 0 if none.
NextMatch(h, i) ==
  LET last == IF FirstUnknown(h, i) = 0 THEN Len(Block(h)) ELSE FirstUnknown(h, i) - 1
      c == {j \in i..last : txHasMatch(Block(h)[j])}
  IN  IF c = {} THEN 0 ELSE CHOOSE j \in c : \A k \in c : j <= k

\* The loop of applyBlock over block h, resumed at transaction i, throws before
\* it inserts another row.
Throws(h, i) == NextMatch(h, i) = 0 /\ FirstUnknown(h, i) # 0

Row(h, i) == [h |-> h, i |-> i]

RECURSIVE RowsFrom(_, _)
RowsFrom(h, i) ==
  IF NextMatch(h, i) = 0 THEN <<>>
  ELSE <<Row(h, NextMatch(h, i))>> \o RowsFrom(h, NextMatch(h, i) + 1)

\* What applyBlock returns for the full block h (an empty list stands for undefined).
BlockRows(h) == RowsFrom(h, 1)

\* getBlockRange hands a header-only record when the filter matches nothing
\* (a block with a transaction unknown to this client comes in full).
IsHeaderOnly(h) == BlockRows(h) = <<>> /\ FirstUnknown(h, 1) = 0

(* --------------------------- remote balances --------------------------- *)
Credit(tx, a) ==
  (IF tx.to = a THEN 1 ELSE 0) - (IF tx.from = a THEN 1 ELSE 0)

RECURSIVE BlockCredit(_, _, _)
BlockCredit(h, i, a) ==
  IF i > Len(Block(h)) THEN 0 ELSE Credit(Block(h)[i], a) + BlockCredit(h, i + 1, a)

RECURSIVE RemoteBalance(_, _)
RemoteBalance(a, h) ==
  IF h = 0 THEN GenesisBalance(a) ELSE RemoteBalance(a, h - 1) + BlockCredit(h, 1, a)

\* Faulty variant of the sum below: each response overwrites the total.
LastBalance(n, h) == IF n = 0 THEN 0 ELSE RemoteBalance(watchAddrs[n], h)

\* updateTotalBalance: the responses for the first n watched addresses, added
\* up, with the remote at height h.
RECURSIVE SumBalances(_, _)
SumBalances(n, h) ==
  IF n = 0 THEN 0 ELSE SumBalances(n - 1, h) + RemoteBalance(watchAddrs[n], h)


(* ------------------------------- state --------------------------------- *)
VARIABLES
  open,                \* client.isOpen()
  connId,              \* number of the current (or last) connection
  subscribed,          \* the remote pushes new blocks to this connection
  chainHeight,         \* height of the remote chain
  nCloses,             \* close events so far
  nFails,              \* requests that failed on a live connection so far
  nLate,               \* range callbacks that found more than 5 seconds elapsed so far
  syncStatus,          \* Synchronizer.syncStatus
  fullSyncInProgress,  \* Synchronizer.fullSyncInProgress
  fullSyncRetryTimer,  \* Synchronizer.fullSyncRetryTimer (0: undefined)
  currentHeight,       \* Synchronizer.currentHeight
  pendingBlocks,       \* Synchronizer.pendingBlocks (heights of the buffered blocks)
  timers,              \* timeouts scheduled and neither fired nor cleared
  nTasks,              \* startSync invocations that passed the guard
  tasks,               \* their async frames (startSync + performFullSync)
  lives,               \* async frames of the sub_msg handler, by block height
  dbHeight,            \* KvTable sync height
  dbBalance,           \* KvTable total balance
  txsTable,            \* TxsTable rows, each with the frame that inserted it
  nEmits,              \* emitSyncUpdate calls so far
  lastUpdate,          \* argument of the last emitSyncUpdate call
  discarded,           \* pushed blocks dropped from pendingBlocks without being iterated
  applies,             \* applyBlock calls per pushed block (sub_msg handler or drain)
  lastFed,             \* height of the last block handed to applyBlock
  fedMono,             \* the heights handed to applyBlock so far never decreased
  cyc                  \* observation of one reconnect cycle that starts at Complete

netVars   == <<open, connId, subscribed, chainHeight, nCloses>>
envVars   == <<netVars, nFails, nLate>>
fieldVars == <<syncStatus, fullSyncInProgress, fullSyncRetryTimer, currentHeight, pendingBlocks>>
frameVars == <<timers, nTasks, tasks, lives>>
dbVars    == <<dbHeight, dbBalance, txsTable>>
obsVars   == <<nEmits, lastUpdate>>
ghostVars == <<discarded, applies, lastFed, fedMono, cyc>>
syncVars  == <<envVars, fieldVars, frameVars, dbVars, obsVars, ghostVars, blocks>>

\* The settings store (Settings.save, Settings.load) and the process that uses it.
VARIABLES
  primary,             \* file at settingsLoc().primary
  backup,              \* file at settingsLoc().backup
  aside,               \* the file load has moved to primary.<time> last
  spc,                 \* position of the process in save or load
  job,                 \* locals of the call in progress
  ret,                 \* outcome of the last load
  nCrashes,            \* process terminations so far
  lastCrash            \* where the process was when it ended last

fsVars    == <<primary, backup, aside, spc, job, ret, nCrashes, lastCrash>>
vars      == <<syncVars, fsVars>>

\* serializeEnc: `Buffer.alloc(2)` holds the version.
VersionBytes == 2

\* A path with no file, and a file: the settings and the password its image was
\* made of, and how many of the image's bytes it holds.
NoFile == [there |-> FALSE, data |-> "-", key |-> "-", len |-> 0]
NoJob  == [data |-> NoFile, pre |-> FALSE, prev |-> NoFile, result |-> [ok |-> FALSE, data |-> "-"]]
LoadThrew == [ok |-> FALSE, data |-> "-"]
NoCrash == [at |-> "-", pre |-> FALSE]

\* No settings store in use: the runs of the synchronizer alone.
SettingsIdle ==
  /\ primary = NoFile /\ backup = NoFile /\ aside = NoFile
  /\ spc = "idle" /\ job = NoJob /\ ret = LoadThrew /\ nCrashes = 0
  /\ lastCrash = NoCrash

NoCb   == [pc |-> "none", i |-> 0, val |-> 0]
\* A range callback whose promise was rejected by applyBlock throwing.
Rejected == [pc |-> "rejected", i |-> 0, val |-> 0]
NoTask == [pc |-> "idle", conn |-> 0, hi |-> 0, next |-> 0,
           cbs |-> [h \in Heights |-> NoCb],
           txs |-> <<>>, bal |-> 0, own |-> FALSE, arr |-> <<>>, k |-> 0, i |-> 0,
           val |-> 0, drained |-> <<>>, emitTxs |-> <<>>, nData |-> 0, at |-> "-"]
NoLive == [pc |-> "none", i |-> 0, conn |-> 0, status |-> Connecting, bal |-> 0, val |-> 0,
           nEmit |-> 0]
NoUpdate == [status |-> Connecting, data |-> FALSE, bal |-> 0, txs |-> <<>>]
CycOff == [on |-> FALSE, opened |-> FALSE, ended |-> FALSE, log |-> <<>>, sub |-> 0, fil |-> 0]

(* --------------------------- observations ------------------------------ *)
CurConn == IF open THEN connId ELSE 0

StatusUpdate(s)      == [status |-> s, data |-> FALSE, bal |-> 0, txs |-> <<>>]
DataUpdate(s, b, tx) == [status |-> s, data |-> TRUE, bal |-> b, txs |-> tx]

\* emitSyncUpdate
Emit(u) == nEmits' = nEmits + 1 /\ lastUpdate' = u

CycStatus(c, s) ==
  IF c.on /\ ~c.ended /\ c.log[Len(c.log)] # s
  THEN [c EXCEPT !.log = Append(@, s), !.ended = (s = Complete /\ c.opened)]
  ELSE c

CycSent(c, type) ==
  IF c.on /\ ~c.ended
  THEN IF type = "Subscribe" THEN [c EXCEPT !.sub = @ + 1]
       ELSE IF type = "SetBlockFilter" THEN [c EXCEPT !.fil = @ + 1] ELSE c
  ELSE c

CycFail(c) == IF c.on /\ ~c.ended THEN CycOff ELSE c

\* The heights handed to applyBlock, folded into lastFed / fedMono.
RECURSIVE FedMonoAfter(_, _, _)
FedMonoAfter(hs, last, mono) ==
  IF hs = <<>> THEN mono ELSE FedMonoAfter(Tail(hs), Head(hs), mono /\ last <= Head(hs))

FedLastAfter(hs, last) == IF hs = <<>> THEN last ELSE hs[Len(hs)]

Feed(hs) ==
  /\ lastFed' = FedLastAfter(hs, lastFed)
  /\ fedMono' = FedMonoAfter(hs, lastFed, fedMono)

(* -------------------------------- Init --------------------------------- *)
\* State after `new Synchronizer(watchAddrs, syncHeight)` on a fresh store, built
\* right after initClient: the client has not opened its connection yet.
\* (Started leaves the remote's chain open; Init fixes it.)
Started ==
  /\ open = FALSE
  /\ connId = 0
  /\ subscribed = FALSE
  /\ chainHeight = 0
  /\ nCloses = 0
  /\ nFails = 0
  /\ nLate = 0
  /\ syncStatus = Connecting
  /\ fullSyncInProgress = FALSE
  /\ fullSyncRetryTimer = 0
  /\ currentHeight = 0
  /\ pendingBlocks = <<>>
  /\ timers = {}
  /\ nTasks = 0
  /\ tasks = [t \in TaskIds |-> NoTask]
  /\ lives = [h \in Heights |-> NoLive]
  /\ dbHeight = 0
  /\ dbBalance = 0
  /\ txsTable = {}
  /\ nEmits = 0
  /\ lastUpdate = NoUpdate
  /\ discarded = {}
  /\ applies = [h \in Heights |-> 0]
  /\ lastFed = 0
  /\ fedMono = TRUE
  /\ cyc = CycOff

Init ==
  /\ Started
  /\ SettingsIdle
  /\ blocks = [h \in Heights |-> Chain(h)]

\* The same start, with any block of BlockSet at height 1.
InitBlocks ==
  /\ Started
  /\ SettingsIdle
  /\ \E b \in BlockSet : blocks = [h \in Heights |-> IF h = 1 THEN b ELSE Chain(h)]

(* ------------------------ guards of the class -------------------------- *)
\* startSync: `if (this.fullSyncInProgress) return;`
AlreadyRunning == fullSyncInProgress

\* startSync: `if (oldStatus === SyncStatus.Connecting)`
NeedsSubscribe(oldStatus) == oldStatus = Connecting

\* sub_msg handler: `if (this.syncStatus !== SyncStatus.Complete)`
MustBuffer == syncStatus # Complete

\* Faulty variant of the test below: `lt` in place of `lte`.
StrictlyStale(height, cur) == height < cur

\* drain loop: `if (height.lte(this.currentHeight))`
StaleBlock(height, cur) == height <= cur

\* Faulty variant of the assignment below: a finally block that keeps the queue.
KeepsPending(q) == q

\* performFullSync finally: `this.pendingBlocks = []`
ClearedPending(q) == <<>>

(* ------------------------------ startSync ------------------------------ *)
\* startSync() past its guard, up to its first await: `tm` are the timeouts
\* still pending, `conn` the connection its requests go out on (0: the client
\* is closed), `c` the reconnect-cycle observation before the call.
StartAttempt(tm, conn, c) ==
  /\ nTasks < MaxTasks
  /\ fullSyncInProgress' = TRUE
  /\ timers' = tm \ {fullSyncRetryTimer}
  /\ fullSyncRetryTimer' = 0
  /\ syncStatus' = InProgress
  /\ Emit(StatusUpdate(InProgress))
  /\ nTasks' = nTasks + 1
  /\ LET first == IF NeedsSubscribe(syncStatus) THEN "Subscribe" ELSE "GetProperties"
         pc    == IF NeedsSubscribe(syncStatus) THEN "subscribe" ELSE "getprops"
     IN  /\ tasks' = [tasks EXCEPT ![nTasks + 1] = [NoTask EXCEPT !.pc = pc, !.conn = conn]]
         /\ cyc' = CycSent(CycStatus(c, InProgress), first)
  /\ UNCHANGED <<currentHeight, pendingBlocks>>

\* Faulty variant of startSync: the status is set and emitted before the
\* in-progress flag is tested.
startSyncLateGuard(tm, conn, c) ==
  IF AlreadyRunning
  THEN /\ timers' = tm
       /\ syncStatus' = InProgress
       /\ Emit(StatusUpdate(InProgress))
       /\ cyc' = CycStatus(c, InProgress)
       /\ UNCHANGED <<fullSyncInProgress, fullSyncRetryTimer, currentHeight, pendingBlocks,
                      nTasks, tasks>>
  ELSE StartAttempt(tm, conn, c)

\* startSync(): a call that finds the flag set returns at once.
startSync(tm, conn, c) ==
  IF AlreadyRunning
  THEN /\ timers' = tm
       /\ cyc' = c
       /\ UNCHANGED <<fieldVars, nTasks, tasks, obsVars>>
  ELSE StartAttempt(tm, conn, c)

(* --------------------------- transport events -------------------------- *)
\* client.on('open')
Open ==
  /\ ~open
  /\ open' = TRUE
  /\ connId' = connId + 1
  /\ subscribed' = FALSE
  /\ startSync(timers, connId + 1, IF cyc.on /\ ~cyc.ended THEN [cyc EXCEPT !.opened = TRUE] ELSE cyc)
  /\ UNCHANGED <<chainHeight, nCloses, nFails, nLate, lives, dbVars, discarded, applies, lastFed, fedMono, blocks, fsVars>>

\* client.on('close')
Close ==
  /\ open
  /\ nCloses < MaxCloses
  /\ open' = FALSE
  /\ subscribed' = FALSE
  /\ nCloses' = nCloses + 1
  /\ fullSyncInProgress' = FALSE
  /\ timers' = timers \ {fullSyncRetryTimer}
  /\ fullSyncRetryTimer' = 0
  /\ syncStatus' = Connecting
  /\ Emit(StatusUpdate(Connecting))
  /\ cyc' = IF syncStatus = Complete
            THEN [on |-> TRUE, opened |-> FALSE, ended |-> FALSE, log |-> <<Connecting>>,
                  sub |-> 0, fil |-> 0]
            ELSE CycOff
  /\ UNCHANGED <<connId, chainHeight, nFails, nLate, currentHeight, pendingBlocks, nTasks, tasks, lives,
                 dbVars, discarded, applies, lastFed, fedMono, blocks, fsVars>>

\* The timeout set by startSync's catch block fires.
RetryTimer ==
  \E id \in timers :
    /\ startSync(timers \ {id}, CurConn, cyc)
    /\ UNCHANGED <<envVars, lives, dbVars, discarded, applies, lastFed, fedMono, blocks, fsVars>>

(* ------------------------------ the remote ----------------------------- *)
\* The remote appends a block while this client is not subscribed.
Produce ==
  /\ chainHeight < MaxHeight
  /\ ~(open /\ subscribed)
  /\ chainHeight' = chainHeight + 1
  /\ UNCHANGED <<open, connId, subscribed, nCloses, nFails, nLate, fieldVars, frameVars, dbVars, obsVars, ghostVars, blocks, fsVars>>

\* client.on('sub_msg'): the remote appends a block and pushes it.
SubMsg ==
  /\ chainHeight < MaxHeight
  /\ open /\ subscribed
  /\ chainHeight' = chainHeight + 1
  /\ LET h == chainHeight + 1 IN
     IF MustBuffer
     THEN /\ pendingBlocks' = Append(pendingBlocks, h)
          /\ UNCHANGED <<syncStatus, fullSyncInProgress, fullSyncRetryTimer, currentHeight,
                         lives, obsVars, applies, lastFed, fedMono>>
     ELSE /\ applies' = [applies EXCEPT ![h] = @ + 1]
          /\ Feed(<<h>>)
          /\ IF Throws(h, 1)
             THEN \* applyBlock throws: the catch block logs it
                  /\ lives' = [lives EXCEPT ![h] = [NoLive EXCEPT !.pc = "done"]]
                  /\ UNCHANGED <<fieldVars, obsVars>>
             ELSE IF NextMatch(h, 1) = 0
             THEN \* applyBlock returns without waiting; emit, then await updateSyncHeight
                  /\ currentHeight' = h
                  /\ Emit(StatusUpdate(syncStatus))
                  /\ lives' = [lives EXCEPT ![h] = [NoLive EXCEPT !.pc = "persist", !.val = h,
                                                                   !.status = syncStatus, !.nEmit = 1]]
                  /\ UNCHANGED <<syncStatus, fullSyncInProgress, fullSyncRetryTimer, pendingBlocks>>
             ELSE \* applyBlock awaits txsTable.insert
                  /\ lives' = [lives EXCEPT ![h] = [NoLive EXCEPT !.pc = "ins", !.i = NextMatch(h, 1)]]
                  /\ UNCHANGED <<fieldVars, obsVars>>
  /\ UNCHANGED <<open, connId, subscribed, nCloses, nFails, nLate, timers, nTasks, tasks, dbVars, discarded, cyc, blocks, fsVars>>

(* ------------------- sub_msg handler, after its awaits ------------------ *)
NAddrs == Len(watchAddrs)

\* A request sent on connection c is rejected: c is gone (or the client was
\* closed when it was sent), or the remote fails it on the live connection.
Fails(c) ==
  IF open /\ c = connId
  THEN nFails < MaxFails /\ nFails' = nFails + 1
  ELSE nFails' = nFails

\* txsTable.insert of the sub_msg handler's applyBlock completes.
LiveInserted(h) ==
  /\ lives[h].pc = "ins"
  /\ txsTable' = txsTable \cup {[h |-> h, i |-> lives[h].i, by |-> 0, via |-> "live"]}
  /\ IF NextMatch(h, lives[h].i + 1) # 0
     THEN /\ lives' = [lives EXCEPT ![h].i = NextMatch(h, lives[h].i + 1)]
          /\ UNCHANGED <<currentHeight>>
     ELSE IF Throws(h, lives[h].i + 1)
     THEN \* applyBlock throws: the catch block logs it
          /\ lives' = [lives EXCEPT ![h] = [NoLive EXCEPT !.pc = "done"]]
          /\ UNCHANGED <<currentHeight>>
     ELSE \* applyBlock sets the height and returns rows; updateTotalBalance sends its queries
          /\ currentHeight' = h
          /\ lives' = [lives EXCEPT ![h] = [@ EXCEPT !.pc = "balq", !.i = 0, !.conn = CurConn,
                                                     !.status = syncStatus]]
  /\ UNCHANGED <<envVars, syncStatus, fullSyncInProgress, fullSyncRetryTimer, pendingBlocks,
                 timers, nTasks, tasks, dbHeight, dbBalance, nEmits, lastUpdate, ghostVars, blocks, fsVars>>

\* All GetAddressInfo responses of the handler's updateTotalBalance have arrived.
LiveBalanceResp(h) ==
  /\ lives[h].pc = "balq"
  /\ open /\ lives[h].conn = connId
  /\ lives' = [lives EXCEPT ![h] = [@ EXCEPT !.pc = "balw", !.bal = SumBalances(NAddrs, chainHeight)]]
  /\ UNCHANGED <<envVars, fieldVars, timers, nTasks, tasks, dbVars, obsVars, ghostVars, blocks, fsVars>>

\* A GetAddressInfo request of the handler fails: the catch block logs it.
LiveBalanceFail(h) ==
  /\ lives[h].pc = "balq"
  /\ Fails(lives[h].conn)
  /\ lives' = [lives EXCEPT ![h] = [NoLive EXCEPT !.pc = "done"]]
  /\ cyc' = CycFail(cyc)
  /\ UNCHANGED <<netVars, nLate, fieldVars, timers, nTasks, tasks, dbVars, obsVars,
                 discarded, applies, lastFed, fedMono, blocks, fsVars>>

\* setTotalBalance of the handler completes: emit, then await updateSyncHeight.
LiveBalanceStored(h) ==
  /\ lives[h].pc = "balw"
  /\ dbBalance' = lives[h].bal
  /\ Emit(DataUpdate(lives[h].status, lives[h].bal, BlockRows(h)))
  /\ lives' = [lives EXCEPT ![h] = [@ EXCEPT !.pc = "persist", !.val = currentHeight, !.nEmit = 1]]
  /\ UNCHANGED <<envVars, fieldVars, timers, nTasks, tasks, dbHeight, txsTable, ghostVars, blocks, fsVars>>

\* setSyncHeight of the handler completes.
LivePersisted(h) ==
  /\ lives[h].pc = "persist"
  /\ dbHeight' = lives[h].val
  /\ lives' = [lives EXCEPT ![h] = [NoLive EXCEPT !.pc = "done", !.nEmit = lives[h].nEmit]]
  /\ UNCHANGED <<envVars, fieldVars, timers, nTasks, tasks, dbBalance, txsTable, obsVars, ghostVars, blocks, fsVars>>

(* --------------------- startSync: subscription phase -------------------- *)
Responds(t) == open /\ tasks[t].conn = connId

\* startSync of frame f has started and not returned yet.
Running(f) == f.pc \notin {"idle", "ok", "failed"}

SubscribeResp(t) ==
  /\ tasks[t].pc = "subscribe"
  /\ Responds(t)
  /\ subscribed' = TRUE
  /\ tasks' = [tasks EXCEPT ![t].pc = "setfilter"]
  /\ cyc' = CycSent(cyc, "SetBlockFilter")
  /\ UNCHANGED <<open, connId, chainHeight, nCloses, nFails, nLate, fieldVars, timers, nTasks, lives, dbVars,
                 nEmits, lastUpdate, discarded, applies, lastFed, fedMono, blocks, fsVars>>

SetFilterResp(t) ==
  /\ tasks[t].pc = "setfilter"
  /\ Responds(t)
  /\ tasks' = [tasks EXCEPT ![t].pc = "getprops"]
  /\ UNCHANGED <<envVars, fieldVars, timers, nTasks, lives, dbVars, nEmits, lastUpdate, ghostVars, blocks, fsVars>>

\* Subscribe or SetBlockFilter fails: logged, performFullSync runs all the same.
SubscribeFail(t) ==
  /\ tasks[t].pc \in {"subscribe", "setfilter"}
  /\ Fails(tasks[t].conn)
  /\ tasks' = [tasks EXCEPT ![t] = [@ EXCEPT !.pc = "getprops", !.conn = CurConn]]
  /\ cyc' = CycFail(cyc)
  /\ UNCHANGED <<netVars, nLate, fieldVars, timers, nTasks, lives, dbVars, nEmits, lastUpdate,
                 discarded, applies, lastFed, fedMono, blocks, fsVars>>

(* --------------------------- performFullSync --------------------------- *)
\* The array a draining frame iterates: this.pendingBlocks as long as no finally
\* block has replaced it, the replaced array afterwards.
TaskArr(t) == IF tasks[t].own THEN pendingBlocks ELSE tasks[t].arr

\* The drain loop from position k up to its next row insertion, its end, or the
\* block whose application throws.
RECURSIVE DrainRun(_, _, _, _)
DrainRun(arr, k, cur, log) ==
  IF k > Len(arr)
  THEN [stop |-> "end", k |-> k, cur |-> cur, log |-> log]
  ELSE IF StaleBlock(arr[k], cur)
  THEN DrainRun(arr, k + 1, cur, Append(log, [h |-> arr[k], before |-> cur, kind |-> "skip"]))
  ELSE IF Throws(arr[k], 1)
  THEN [stop |-> "throw", k |-> k, cur |-> cur,
        log |-> Append(log, [h |-> arr[k], before |-> cur, kind |-> "throw"])]
  ELSE IF NextMatch(arr[k], 1) = 0
  THEN DrainRun(arr, k + 1, arr[k], Append(log, [h |-> arr[k], before |-> cur, kind |-> "apply"]))
  ELSE [stop |-> "ins", k |-> k, cur |-> cur,
        log |-> Append(log, [h |-> arr[k], before |-> cur, kind |-> "apply"])]

RECURSIVE AppliedIn(_)
AppliedIn(log) ==
  IF log = <<>> THEN <<>>
  ELSE (IF Head(log).kind = "apply" THEN <<Head(log).h>> ELSE <<>>) \o AppliedIn(Tail(log))

SeqCount(sq, x) == Cardinality({n \in 1..Len(sq) : sq[n] = x})

\* Frame f after the drain loop over arr stopped with result r: suspended on the
\* first insertion of block arr[r.k], or past the loop awaiting updateSyncHeight.
AfterDrain(f, arr, r) ==
  IF r.stop = "ins"
  THEN [f EXCEPT !.pc = "drain", !.k = r.k, !.i = NextMatch(arr[r.k], 1), !.drained = r.log]
  ELSE [f EXCEPT !.pc = "persist", !.k = r.k, !.i = 0, !.val = r.cur, !.drained = r.log]

\* Ghost bookkeeping of the blocks a drain run handed to applyBlock.
DrainFed(old, new) ==
  LET hs == AppliedIn(SubSeq(new, Len(old) + 1, Len(new))) IN
  /\ Feed(hs)
  /\ applies' = [h \in Heights |-> applies[h] + SeqCount(hs, h)]

\* `this.pendingBlocks = []` in frame t: frames still iterating the old array keep it.
Detached(ts, t, q) ==
  [u \in TaskIds |->
     IF u # t /\ ts[u].own THEN [ts[u] EXCEPT !.own = FALSE, !.arr = q] ELSE ts[u]]

\* Frame f once startSync has returned: only its range callbacks can still run
\* (what they push to txs is no longer read); emitTxs keeps what the data update carried.
Finished(f, pc, emitted) ==
  [NoTask EXCEPT !.pc = pc, !.cbs = f.cbs, !.emitTxs = emitted,
                 !.nData = IF pc = "ok" THEN 1 ELSE 0]

\* Pushed blocks in the replaced array that no drain loop has reached or will reach.
Consumed(f, q) ==
  IF ~f.own THEN 0
  ELSE IF f.pc = "drain" THEN Len(q)
  ELSE IF f.pc = "persist" THEN f.k - 1 ELSE 0

Dropped(q) ==
  {q[j] : j \in {n \in 1..Len(q) : \A u \in TaskIds : n > Consumed(tasks[u], q)}}

\* GetProperties answered: stream the missing range, or go on to the balance.
GetPropsResp(t) ==
  /\ tasks[t].pc = "getprops"
  /\ Responds(t)
  /\ IF currentHeight < chainHeight
     THEN /\ tasks' = [tasks EXCEPT ![t] = [@ EXCEPT !.pc = "range", !.next = currentHeight + 1,
                                                     !.hi = chainHeight]]
     ELSE /\ tasks' = [tasks EXCEPT ![t].pc = "balq"]
  /\ UNCHANGED <<envVars, fieldVars, timers, nTasks, lives, dbVars, nEmits, lastUpdate, ghostVars, blocks, fsVars>>

\* Outcome of a callback's `curTime - time > 5000` test.
Elapsed(late) ==
  IF late THEN nLate < MaxLate /\ nLate' = nLate + 1 ELSE nLate' = nLate

\* getBlockRange callback with the next block of the range.  `late` is the
\* outcome of the `curTime - time > 5000` test.
RangeBlock(t, late) ==
  LET h == tasks[t].next IN
  /\ tasks[t].pc = "range"
  /\ Responds(t)
  /\ h <= tasks[t].hi
  /\ Elapsed(late)
  /\ Feed(<<h>>)
  /\ IF IsHeaderOnly(h)
     THEN /\ currentHeight' = h
          /\ tasks' = [tasks EXCEPT ![t] = [@ EXCEPT !.next = h + 1,
                         !.cbs[h] = IF late THEN [pc |-> "persist2", i |-> 0, val |-> h]
                                            ELSE NoCb]]
     ELSE IF Throws(h, 1)
     THEN \* applyBlock throws: the callback's promise rejects, nobody awaits it
          /\ ~late
          /\ tasks' = [tasks EXCEPT ![t] = [@ EXCEPT !.next = h + 1, !.cbs[h] = Rejected]]
          /\ UNCHANGED currentHeight
     ELSE /\ ~late
          /\ tasks' = [tasks EXCEPT ![t] = [@ EXCEPT !.next = h + 1,
                         !.cbs[h] = [pc |-> "ins", i |-> NextMatch(h, 1), val |-> 0]]]
          /\ UNCHANGED currentHeight
  /\ UNCHANGED <<netVars, nFails, syncStatus, fullSyncInProgress, fullSyncRetryTimer, pendingBlocks,
                 timers, nTasks, lives, dbVars, obsVars, discarded, applies, cyc, blocks, fsVars>>

\* txsTable.insert of a range callback's applyBlock completes.
RangeInserted(t, h) ==
  /\ tasks[t].cbs[h].pc = "ins"
  /\ txsTable' = txsTable \cup {[h |-> h, i |-> tasks[t].cbs[h].i, by |-> t, via |-> "range"]}
  /\ IF NextMatch(h, tasks[t].cbs[h].i + 1) # 0
     THEN /\ tasks' = [tasks EXCEPT ![t].cbs[h].i = NextMatch(h, tasks[t].cbs[h].i + 1)]
          /\ UNCHANGED currentHeight
     ELSE IF Throws(h, tasks[t].cbs[h].i + 1)
     THEN \* applyBlock throws: the callback's promise rejects, nobody awaits it
          /\ tasks' = [tasks EXCEPT ![t].cbs[h] = Rejected]
          /\ UNCHANGED currentHeight
     ELSE \* height set, rows pushed to txs, await updateSyncHeight
          /\ currentHeight' = h
          /\ tasks' = [tasks EXCEPT ![t] = [@ EXCEPT
                         !.txs = IF Running(tasks[t]) THEN @ \o BlockRows(h) ELSE @,
                         !.cbs[h] = [pc |-> "persist1", i |-> 0, val |-> h]]]
  /\ UNCHANGED <<envVars, syncStatus, fullSyncInProgress, fullSyncRetryTimer, pendingBlocks,
                 timers, nTasks, lives, dbHeight, dbBalance, obsVars, ghostVars, blocks, fsVars>>

\* setSyncHeight of a range callback completes; after the first one the
\* callback tests the clock (`late`) and may persist the height once more.
RangePersisted(t, h, late) ==
  /\ tasks[t].cbs[h].pc \in {"persist1", "persist2"}
  /\ Elapsed(late)
  /\ dbHeight' = tasks[t].cbs[h].val
  /\ IF tasks[t].cbs[h].pc = "persist1" /\ late
     THEN tasks' = [tasks EXCEPT ![t].cbs[h] = [pc |-> "persist2", i |-> 0, val |-> currentHeight]]
     ELSE /\ (tasks[t].cbs[h].pc = "persist2" => ~late)
          /\ tasks' = [tasks EXCEPT ![t].cbs[h] = NoCb]
  /\ UNCHANGED <<netVars, nFails, fieldVars, timers, nTasks, lives, dbBalance, txsTable, obsVars, ghostVars, blocks, fsVars>>

\* getBlockRange signals the end of the range: updateTotalBalance sends its queries.
RangeEnd(t) ==
  /\ tasks[t].pc = "range"
  /\ Responds(t)
  /\ tasks[t].next > tasks[t].hi
  /\ tasks' = [tasks EXCEPT ![t] = [@ EXCEPT !.pc = "balq", !.next = 0, !.hi = 0]]
  /\ UNCHANGED <<envVars, fieldVars, timers, nTasks, lives, dbVars, nEmits, lastUpdate, ghostVars, blocks, fsVars>>

\* All GetAddressInfo responses of the catch-up's updateTotalBalance have arrived.
BalanceResp(t) ==
  /\ tasks[t].pc = "balq"
  /\ Responds(t)
  /\ tasks' = [tasks EXCEPT ![t] = [@ EXCEPT !.pc = "balw", !.bal = SumBalances(NAddrs, chainHeight)]]
  /\ UNCHANGED <<envVars, fieldVars, timers, nTasks, lives, dbVars, obsVars, ghostVars, blocks, fsVars>>

\* setTotalBalance completes: the drain loop starts on this.pendingBlocks.
\* Faulty variant of the operator below: the catch block only logs the error.
NoRetry(tm, id) == tm

\* startSync catch: `setTimeout(() => this.startSync(), 5000)`; `tm` are the
\* timeouts pending before, `id` names the new one.
ScheduleRetry(tm, id) == tm \cup {id}

\* applyBlock throws on block h inside the drain loop of frame t, at position k
\* of the pending array when the frame iterates it (0 otherwise):
\* performFullSync's finally, then startSync's catch (retry timeout) and finally.
DrainThrown(t, k, h) ==
  /\ pendingBlocks' = ClearedPending(pendingBlocks)
  /\ discarded' = discarded \cup
       {pendingBlocks[j] : j \in {n \in 1..Len(pendingBlocks) :
           n > k /\ \A u \in TaskIds \ {t} : n > Consumed(tasks[u], pendingBlocks)}}
  /\ fullSyncRetryTimer' = t
  /\ timers' = ScheduleRetry(timers, t)
  /\ fullSyncInProgress' = FALSE
  /\ tasks' = [Detached(tasks, t, pendingBlocks) EXCEPT
                 ![t] = [Finished(tasks[t], "failed", <<>>) EXCEPT !.at = "drain", !.val = h]]
  /\ cyc' = CycFail(cyc)

BalanceStored(t) ==
  LET r == DrainRun(pendingBlocks, 1, currentHeight, <<>>) IN
  /\ tasks[t].pc = "balw"
  /\ dbBalance' = tasks[t].bal
  /\ currentHeight' = r.cur
  /\ DrainFed(<<>>, r.log)
  /\ IF r.stop = "throw"
     THEN DrainThrown(t, r.k, pendingBlocks[r.k])
     ELSE /\ tasks' = [tasks EXCEPT ![t] = AfterDrain([@ EXCEPT !.own = TRUE], pendingBlocks, r)]
          /\ UNCHANGED <<fullSyncInProgress, fullSyncRetryTimer, pendingBlocks, timers,
                         discarded, cyc>>
  /\ UNCHANGED <<envVars, syncStatus, nTasks, lives, dbHeight, txsTable, obsVars, blocks, fsVars>>

\* txsTable.insert of the drain loop's applyBlock completes.
DrainInserted(t) ==
  LET f   == tasks[t]
      arr == TaskArr(t)
      h   == arr[f.k]
      r   == DrainRun(arr, f.k + 1, h, f.drained)
  IN
  /\ f.pc = "drain"
  /\ txsTable' = txsTable \cup {[h |-> h, i |-> f.i, by |-> t, via |-> "drain"]}
  /\ IF NextMatch(h, f.i + 1) # 0
     THEN /\ tasks' = [tasks EXCEPT ![t].i = NextMatch(h, f.i + 1)]
          /\ UNCHANGED <<currentHeight, applies, lastFed, fedMono, fullSyncInProgress,
                         fullSyncRetryTimer, pendingBlocks, timers, discarded, cyc>>
     ELSE IF Throws(h, f.i + 1)
     THEN /\ DrainThrown(t, IF f.own THEN f.k ELSE 0, h)
          /\ UNCHANGED <<currentHeight, applies, lastFed, fedMono>>
     ELSE /\ currentHeight' = r.cur
          /\ DrainFed(f.drained, r.log)
          /\ IF r.stop = "throw"
             THEN DrainThrown(t, IF f.own THEN r.k ELSE 0, arr[r.k])
             ELSE /\ tasks' = [tasks EXCEPT
                                 ![t] = AfterDrain([f EXCEPT !.txs = @ \o BlockRows(h)], arr, r)]
                  /\ UNCHANGED <<fullSyncInProgress, fullSyncRetryTimer, pendingBlocks,
                                 timers, discarded, cyc>>
  /\ UNCHANGED <<envVars, syncStatus, nTasks, lives, dbHeight, dbBalance, obsVars, blocks, fsVars>>

\* The last setSyncHeight completes: status Complete, the data update, then the
\* finally blocks of performFullSync and startSync.
SyncCompleted(t) ==
  /\ tasks[t].pc = "persist"
  /\ dbHeight' = tasks[t].val
  /\ syncStatus' = Complete
  /\ Emit(DataUpdate(Complete, tasks[t].bal, tasks[t].txs))
  /\ pendingBlocks' = ClearedPending(pendingBlocks)
  /\ discarded' = discarded \cup Dropped(pendingBlocks)
  /\ fullSyncInProgress' = FALSE
  /\ tasks' = [Detached(tasks, t, pendingBlocks) EXCEPT
                 ![t] = Finished(tasks[t], "ok", tasks[t].txs)]
  /\ cyc' = CycStatus(cyc, Complete)
  /\ UNCHANGED <<envVars, fullSyncRetryTimer, currentHeight, timers, nTasks, lives,
                 dbBalance, txsTable, applies, lastFed, fedMono, blocks, fsVars>>

\* GetProperties, the range stream or a balance query fails: performFullSync's
\* finally, then startSync's catch (retry timeout) and finally.
SyncFailed(t) ==
  /\ tasks[t].pc \in {"getprops", "range", "balq"}
  /\ Fails(tasks[t].conn)
  /\ pendingBlocks' = ClearedPending(pendingBlocks)
  /\ discarded' = discarded \cup Dropped(pendingBlocks)
  /\ fullSyncRetryTimer' = t
  /\ timers' = ScheduleRetry(timers, t)
  /\ fullSyncInProgress' = FALSE
  /\ tasks' = [Detached(tasks, t, pendingBlocks) EXCEPT
                 ![t] = [Finished(tasks[t], "failed", <<>>) EXCEPT !.at = tasks[t].pc]]
  /\ cyc' = CycFail(cyc)
  /\ UNCHANGED <<netVars, nLate, syncStatus, currentHeight,
                 nTasks, lives, dbVars, obsVars, applies, lastFed, fedMono, blocks, fsVars>>

(* ------------------------------- Settings ------------------------------ *)
SettingsSet == {"s1", "s2"}
Passwords   == {"p1", "p2"}

\* serializeEnc: version, then the settings encrypted under the password.
serializeEnc(st, pw) == [there |-> TRUE, data |-> st, key |-> pw, len |-> ImageLen]

\* A file that holds the first n bytes of buffer buf.
Prefix(buf, n) == [buf EXCEPT !.len = n]

\* Files a path can hold: an image, whole or cut short by an interrupted write.
Files == {NoFile} \cup {Prefix(serializeEnc(st, pw), n) :
                          st \in SettingsSet, pw \in Passwords, n \in 0..ImageLen}

existsSync(f) == f.there

IsComplete(f) == f.there /\ f.len = ImageLen

\* deserializeEnc: readUInt16BE throws on a file shorter than the version
\* field, decrypt throws on a truncated image and on another password's image.
deserializeEnc(f, pw) ==
  IF f.len < VersionBytes THEN LoadThrew
  ELSE IF f.len < ImageLen \/ f.key # pw THEN LoadThrew
  ELSE [ok |-> TRUE, data |-> f.data]

\* Faulty variant of the operator below: the first catch block propagates the
\* error whether or not a backup exists.
loadPrimaryOnly(p, b, pw) ==
  IF existsSync(p) THEN deserializeEnc(p, pw) ELSE LoadThrew

\* What load(pw) returns or throws with p at the primary and b at the backup
\* location.
loadResult(p, b, pw) ==
  IF existsSync(p) /\ deserializeEnc(p, pw).ok THEN deserializeEnc(p, pw)
  ELSE IF existsSync(b) THEN deserializeEnc(b, pw)
  ELSE LoadThrew

\* save: `if (existsSync(loc)) renameSync(loc, bakLoc)`; the pair is the
\* primary and the backup afterwards.
MoveToBackup(p, b) == IF existsSync(p) THEN <<NoFile, p>> ELSE <<p, b>>

InSave == spc \in {"save_unlink", "save_rename", "save_open", "save_write", "save_clear"}

\* save(password) on settings st: serializeEnc, settingsLoc.
SaveStart(st, pw) ==
  /\ spc = "idle"
  /\ spc' = "save_unlink"
  /\ job' = [NoJob EXCEPT !.data = serializeEnc(st, pw), !.pre = IsComplete(primary),
                          !.prev = primary]
  /\ UNCHANGED <<primary, backup, aside, ret, nCrashes, lastCrash, syncVars>>

\* Remove any existing backup.
SaveUnlink ==
  /\ spc = "save_unlink"
  /\ backup' = NoFile
  /\ spc' = "save_rename"
  /\ UNCHANGED <<primary, aside, job, ret, nCrashes, lastCrash, syncVars>>

\* Move the current settings to the backup location.
SaveRename ==
  /\ spc = "save_rename"
  /\ primary' = MoveToBackup(primary, backup)[1]
  /\ backup' = MoveToBackup(primary, backup)[2]
  /\ spc' = "save_open"
  /\ UNCHANGED <<aside, job, ret, nCrashes, lastCrash, syncVars>>

\* writeFileSync opens the primary location: the file is created, or cut to
\* length 0.
SaveOpen ==
  /\ spc = "save_open"
  /\ primary' = Prefix(job.data, 0)
  /\ spc' = "save_write"
  /\ UNCHANGED <<backup, aside, job, ret, nCrashes, lastCrash, syncVars>>

\* writeFileSync writes the next byte; after the last one it returns.
SaveWrite ==
  /\ spc = "save_write"
  /\ primary' = Prefix(job.data, primary.len + 1)
  /\ spc' = IF primary.len + 1 = ImageLen THEN "save_clear" ELSE "save_write"
  /\ UNCHANGED <<backup, aside, job, ret, nCrashes, lastCrash, syncVars>>

\* writeFileSync throws (no space, no permission): save propagates the error.
SaveWriteFails ==
  /\ spc \in {"save_open", "save_write"}
  /\ spc' = "idle"
  /\ job' = NoJob
  /\ UNCHANGED <<primary, backup, aside, ret, nCrashes, lastCrash, syncVars>>

\* Clear the backup; save returns.
SaveClear ==
  /\ spc = "save_clear"
  /\ backup' = NoFile
  /\ spc' = "idle"
  /\ job' = NoJob
  /\ UNCHANGED <<primary, aside, ret, nCrashes, lastCrash, syncVars>>

\* load(password) up to its return, its throw, or its first rename.
LoadStart(pw) ==
  /\ spc = "idle"
  /\ IF (existsSync(primary) /\ deserializeEnc(primary, pw).ok) \/ ~loadResult(primary, backup, pw).ok
     THEN /\ ret' = loadResult(primary, backup, pw)
          /\ UNCHANGED <<spc, job>>
     ELSE /\ spc' = IF existsSync(primary) THEN "load_move" ELSE "load_restore"
          /\ job' = [NoJob EXCEPT !.result = loadResult(primary, backup, pw)]
          /\ UNCHANGED ret
  /\ UNCHANGED <<primary, backup, aside, nCrashes, lastCrash, syncVars>>

\* load: `renameSync(locs.primary, newLoc)`, the unreadable primary is kept aside.
LoadMoveAside ==
  /\ spc = "load_move"
  /\ aside' = primary
  /\ primary' = NoFile
  /\ spc' = "load_restore"
  /\ UNCHANGED <<backup, job, ret, nCrashes, lastCrash, syncVars>>

\* load: `renameSync(locs.backup, locs.primary)`, then `return settings`.
LoadRestore ==
  /\ spc = "load_restore"
  /\ primary' = backup
  /\ backup' = NoFile
  /\ ret' = job.result
  /\ spc' = "idle"
  /\ job' = NoJob
  /\ UNCHANGED <<aside, nCrashes, lastCrash, syncVars>>

\* The process ends between two file operations; the files stay as they are.
Crash ==
  /\ spc # "idle"
  /\ nCrashes < MaxCrashes
  /\ nCrashes' = nCrashes + 1
  /\ spc' = "idle"
  /\ job' = NoJob
  /\ lastCrash' = [at |-> spc, pre |-> job.pre]
  /\ UNCHANGED <<primary, backup, aside, ret, syncVars>>

(* ------------------------------ behaviours ----------------------------- *)
Next ==
  \/ Open
  \/ Close
  \/ RetryTimer
  \/ Produce
  \/ SubMsg
  \/ \E h \in Heights : LiveInserted(h)
  \/ \E h \in Heights : LiveBalanceResp(h)
  \/ \E h \in Heights : LiveBalanceFail(h)
  \/ \E h \in Heights : LiveBalanceStored(h)
  \/ \E h \in Heights : LivePersisted(h)
  \/ \E t \in TaskIds : SubscribeResp(t)
  \/ \E t \in TaskIds : SetFilterResp(t)
  \/ \E t \in TaskIds : SubscribeFail(t)
  \/ \E t \in TaskIds : GetPropsResp(t)
  \/ \E t \in TaskIds, late \in BOOLEAN : RangeBlock(t, late)
  \/ \E t \in TaskIds, h \in Heights : RangeInserted(t, h)
  \/ \E t \in TaskIds, h \in Heights, late \in BOOLEAN : RangePersisted(t, h, late)
  \/ \E t \in TaskIds : RangeEnd(t)
  \/ \E t \in TaskIds : BalanceResp(t)
  \/ \E t \in TaskIds : BalanceStored(t)
  \/ \E t \in TaskIds : DrainInserted(t)
  \/ \E t \in TaskIds : SyncCompleted(t)
  \/ \E t \in TaskIds : SyncFailed(t)

Spec == Init /\ [][Next]_vars

\* The runs in which the transport, once open, stays open and no request fails.
NextOK ==
  \/ Open
  \/ Produce
  \/ SubMsg
  \/ \E h \in Heights : LiveInserted(h)
  \/ \E h \in Heights : LiveBalanceResp(h)
  \/ \E h \in Heights : LiveBalanceStored(h)
  \/ \E h \in Heights : LivePersisted(h)
  \/ \E t \in TaskIds : SubscribeResp(t)
  \/ \E t \in TaskIds : SetFilterResp(t)
  \/ \E t \in TaskIds : GetPropsResp(t)
  \/ \E t \in TaskIds, late \in BOOLEAN : RangeBlock(t, late)
  \/ \E t \in TaskIds, h \in Heights : RangeInserted(t, h)
  \/ \E t \in TaskIds, h \in Heights, late \in BOOLEAN : RangePersisted(t, h, late)
  \/ \E t \in TaskIds : RangeEnd(t)
  \/ \E t \in TaskIds : BalanceResp(t)
  \/ \E t \in TaskIds : BalanceStored(t)
  \/ \E t \in TaskIds : DrainInserted(t)
  \/ \E t \in TaskIds : SyncCompleted(t)

SpecOK == Init /\ [][NextOK]_vars

\* The same runs over every block of BlockSet at height 1.
SpecBlocks == InitBlocks /\ [][NextOK]_vars

\* The runs without a close event: the transport, once open, stays open; requests
\* may fail (at most MaxFails times, after which the remote has stopped failing).
NextLive ==
  \/ Open
  \/ RetryTimer
  \/ Produce
  \/ SubMsg
  \/ \E h \in Heights : LiveInserted(h)
  \/ \E h \in Heights : LiveBalanceResp(h)
  \/ \E h \in Heights : LiveBalanceFail(h)
  \/ \E h \in Heights : LiveBalanceStored(h)
  \/ \E h \in Heights : LivePersisted(h)
  \/ \E t \in TaskIds : SubscribeResp(t)
  \/ \E t \in TaskIds : SetFilterResp(t)
  \/ \E t \in TaskIds : SubscribeFail(t)
  \/ \E t \in TaskIds : GetPropsResp(t)
  \/ \E t \in TaskIds, late \in BOOLEAN : RangeBlock(t, late)
  \/ \E t \in TaskIds, h \in Heights : RangeInserted(t, h)
  \/ \E t \in TaskIds, h \in Heights, late \in BOOLEAN : RangePersisted(t, h, late)
  \/ \E t \in TaskIds : RangeEnd(t)
  \/ \E t \in TaskIds : BalanceResp(t)
  \/ \E t \in TaskIds : BalanceStored(t)
  \/ \E t \in TaskIds : DrainInserted(t)
  \/ \E t \in TaskIds : SyncCompleted(t)
  \/ \E t \in TaskIds : SyncFailed(t)

\* What the event loop and its environment owe the synchronizer: a timeout that
\* is pending fires, a request on the live connection is answered (unless it
\* fails), a database statement completes.  Nothing is owed for the transport
\* opening, for new blocks or for failures.
Progress ==
  \/ RetryTimer
  \/ \E h \in Heights : LiveInserted(h)
  \/ \E h \in Heights : LiveBalanceResp(h)
  \/ \E h \in Heights : LiveBalanceStored(h)
  \/ \E h \in Heights : LivePersisted(h)
  \/ \E t \in TaskIds : SubscribeResp(t)
  \/ \E t \in TaskIds : SetFilterResp(t)
  \/ \E t \in TaskIds : GetPropsResp(t)
  \/ \E t \in TaskIds : RangeBlock(t, FALSE)
  \/ \E t \in TaskIds, h \in Heights : RangeInserted(t, h)
  \/ \E t \in TaskIds, h \in Heights : RangePersisted(t, h, FALSE)
  \/ \E t \in TaskIds : RangeEnd(t)
  \/ \E t \in TaskIds : BalanceResp(t)
  \/ \E t \in TaskIds : BalanceStored(t)
  \/ \E t \in TaskIds : DrainInserted(t)
  \/ \E t \in TaskIds : SyncCompleted(t)

SpecLive == Init /\ [][NextLive]_vars /\ WF_vars(Progress)

\* Chains with one block that carries a transaction of an unknown class, alone
\* or after a matching transaction.
InitVariant ==
  /\ Started
  /\ SettingsIdle
  /\ \E u \in Heights, b \in {<<UnknownTx>>, <<MintTxV0("A"), UnknownTx>>} :
       blocks = [h \in Heights |-> IF h = u THEN b ELSE Chain(h)]

SpecVariant == InitVariant /\ [][NextLive]_vars

\* The settings store alone: any files at the two locations to start with.
InitSettings ==
  /\ Started
  /\ blocks = [h \in Heights |-> Chain(h)]
  /\ primary \in Files /\ backup \in Files /\ aside = NoFile
  /\ spc = "idle" /\ job = NoJob /\ ret = LoadThrew /\ nCrashes = 0
  /\ lastCrash = NoCrash

NextSettings ==
  \/ \E st \in SettingsSet, pw \in Passwords : SaveStart(st, pw)
  \/ SaveUnlink
  \/ SaveRename
  \/ SaveOpen
  \/ SaveWrite
  \/ SaveWriteFails
  \/ SaveClear
  \/ \E pw \in Passwords : LoadStart(pw)
  \/ LoadMoveAside
  \/ LoadRestore
  \/ Crash

SpecSettings == InitSettings /\ [][NextSettings]_vars

(* ------------------------------ vocabulary ------------------------------ *)
\* performFullSync of frame t has been entered and has not returned.
InCatchUp(t) == tasks[t].pc \in {"getprops", "range", "balq", "balw", "drain", "persist"}

\* Frame t streams its range or has not persisted the aggregate balance yet.
BeforeDrain(t) == tasks[t].pc \in {"range", "balq", "balw"}

\* No handler, callback or catch-up is suspended.
Quiescent ==
  /\ \A t \in TaskIds : ~Running(tasks[t])
  /\ \A t \in TaskIds, h \in Heights : tasks[t].cbs[h].pc \in {"none", "rejected"}
  /\ \A h \in Heights : lives[h].pc \in {"none", "done"}

OpenEvent == ~open /\ open'
TimerEvent == open' = open /\ timers' # timers /\ timers' \subseteq timers

IsPrefix(a, b) == Len(a) <= Len(b) /\ \A n \in 1..Len(a) : a[n] = b[n]

(* -------------------------------- claims -------------------------------- *)
\* C1: at most one catch-up procedure (performFullSync) is in flight at any
\* instant, also after a close that arrives while one is suspended and an open
\* that follows it.
C1_AtMostOneCatchUp == Cardinality({t \in TaskIds : InCatchUp(t)}) <= 1

\* C2: with the transport staying open and no request failing, no pushed block
\* is dropped from the pending queue without having been iterated by the
\* drain, and none is handed to applyBlock twice.
C2_NoPushLost == \A h \in Heights : h \notin discarded /\ applies[h] <= 1

\* C3: the local height never decreases.
C3_HeightMonotone == [][currentHeight' >= currentHeight]_vars

\* C4: a reconnect cycle that starts at status Complete (close, then open, no
\* request failing) takes the status through Connecting, InProgress, Complete in
\* that order and sends exactly one Subscribe and one SetBlockFilter.
C4_ReconnectCycle ==
  cyc.on =>
    /\ IsPrefix(cyc.log, <<Connecting, InProgress, Complete>>)
    /\ cyc.sub <= 1 /\ cyc.fil <= 1
    /\ (cyc.ended => cyc.sub = 1 /\ cyc.fil = 1)

C6_NoInterleaving ==
  \A u \in TaskIds : BeforeDrain(u) =>
    /\ \A h \in Heights : lives[h].pc # "ins"
    /\ \A t \in TaskIds : tasks[t].pc # "drain"

\* C7: the pending queue grows only by a push handled while status is not
\* Complete; it is empty when a catch-up procedure exits (success or failure);
\* and status Complete implies that it is empty.
C7_PendingQueue ==
  /\ [](syncStatus = Complete => pendingBlocks = <<>>)
  /\ [][Len(pendingBlocks') > Len(pendingBlocks) =>
          /\ syncStatus # Complete
          /\ chainHeight' = chainHeight + 1
          /\ pendingBlocks' = Append(pendingBlocks, chainHeight')]_vars
  /\ [][\A t \in TaskIds :
          (InCatchUp(t) /\ tasks'[t].pc \in {"ok", "failed"}) => pendingBlocks' = <<>>]_vars

\* C7 witness: a catch-up has completed, the queue is empty, and a pushed block
\* went through the queue (applied without a sub_msg frame of its own).
C7_Witness ==
  /\ syncStatus = Complete /\ pendingBlocks = <<>>
  /\ \E t \in TaskIds : tasks[t].pc = "ok"
  /\ \E h \in Heights : applies[h] = 1 /\ lives[h].pc = "none"

\* C8: the drain takes the buffered blocks in arrival order; one whose height
\* is <= the local height is skipped: no row is inserted for it, nothing is
\* added to the cycle's rows, the height stays, and the blocks behind it are
\* still processed.
C8_IdempotentDrain ==
  \A t \in TaskIds : tasks[t].pc \in {"drain", "persist"} =>
    LET log == tasks[t].drained IN
    /\ IsPrefix([n \in 1..Len(log) |-> log[n].h], TaskArr(t))
    /\ (tasks[t].pc = "persist" => Len(log) = tasks[t].k - 1)
    /\ \A n \in 1..Len(log) :
         /\ (log[n].h <= log[n].before) <=> (log[n].kind = "skip")
         /\ log[n].kind = "skip" =>
              /\ \A r \in txsTable : ~(r.by = t /\ r.via = "drain" /\ r.h = log[n].h)
              /\ \A m \in 1..Len(tasks[t].txs) :
                   tasks[t].txs[m].h = log[n].h =>
                     \E r \in txsTable : r.by = t /\ r.via = "range" /\ r.h = log[n].h
              /\ (n < Len(log) => log[n + 1].before = log[n].before)
              /\ (n = Len(log) /\ tasks[t].pc = "persist" => tasks[t].val = log[n].before)

\* C8 witness: a drain skipped a stale block and went on to apply the next one.
C8_Witness ==
  \E t \in TaskIds : tasks[t].pc \in {"drain", "persist"} /\
    \E n \in 1..Len(tasks[t].drained) :
      /\ tasks[t].drained[n].kind = "skip"
      /\ n < Len(tasks[t].drained)
      /\ tasks[t].drained[n + 1].kind = "apply"

\* C9: when the blocks handed to applyBlock came with non-decreasing heights
\* and every handler has finished, the local height is the last block's height.
C9_Convergence == (fedMono /\ Quiescent) => currentHeight = lastFed

\* C10: a completed catch-up cycle emitted one data update, whose rows hold
\* every row the cycle inserted, in apply order (heights never decreasing).
C10_CompleteUpdate ==
  \A t \in TaskIds : tasks[t].pc = "ok" =>
    LET e == tasks[t].emitTxs IN
    /\ tasks[t].nData = 1
    /\ \A r \in txsTable : r.by = t => \E m \in 1..Len(e) : e[m] = Row(r.h, r.i)
    /\ \A m \in 1..Len(e) - 1 : e[m].h <= e[m + 1].h

C12_BalanceCorrect ==
  [][/\ \A t \in TaskIds :
          /\ (tasks[t].pc = "balq" /\ tasks'[t].pc = "balw") =>
                tasks'[t].bal = RemoteBalance(watchAddrs[1], chainHeight)
                                  + RemoteBalance(watchAddrs[2], chainHeight)
          /\ (tasks[t].pc = "balw" /\ tasks'[t].pc # "balw") => dbBalance' = tasks[t].bal
          /\ (tasks[t].pc \in {"balw", "drain", "persist"} /\ tasks'[t].pc \in {"drain", "persist"}) =>
                tasks'[t].bal = tasks[t].bal
          /\ (tasks[t].pc = "persist" /\ tasks'[t].pc = "ok") =>
                lastUpdate'.data /\ lastUpdate'.bal = tasks[t].bal
     /\ \A h \in Heights :
          /\ (lives[h].pc = "balq" /\ lives'[h].pc = "balw") =>
                lives'[h].bal = RemoteBalance(watchAddrs[1], chainHeight)
                                  + RemoteBalance(watchAddrs[2], chainHeight)
          /\ (lives[h].pc = "balw" /\ lives'[h].pc # "balw") =>
                /\ dbBalance' = lives[h].bal
                /\ lastUpdate'.data /\ lastUpdate'.bal = lives[h].bal
     /\ dbBalance' # dbBalance =>
          \/ \E t \in TaskIds : tasks[t].pc = "balw" /\ tasks'[t].pc # "balw"
          \/ \E h \in Heights : lives[h].pc = "balw" /\ lives'[h].pc # "balw"]_vars

\* C12 witness: a catch-up completed after block 1 moved one unit out of the
\* watched addresses; the store and the data update both hold the new sum.
C12_Witness ==
  /\ \E t \in TaskIds : tasks[t].pc = "ok"
  /\ chainHeight >= 1
  /\ lastUpdate.data /\ lastUpdate.status = Complete
  /\ lastUpdate.bal = dbBalance
  /\ dbBalance = GenesisBalance("A") + GenesisBalance("B") - 1

\* The matching rule of the Block Applier as the specification words it.
Relevant(tx) ==
  \/ tx.variant = "OwnerTxV0" /\ {tx.minter, tx.script} \cap {"A", "B"} # {}
  \/ tx.variant \in {"MintTxV0", "RewardTxV0"} /\ tx.to \in {"A", "B"}
  \/ tx.variant = "TransferTxV0" /\ {tx.from, tx.to} \cap {"A", "B"} # {}

RelevantAt(h) == {j \in 1..Len(Block(h)) : Relevant(Block(h)[j])}

\* One row per relevant transaction of block h, in block order.
ExpectedRows(h) ==
  LET f == CHOOSE g \in [1..Cardinality(RelevantAt(h)) -> RelevantAt(h)] :
             \A m, n \in DOMAIN g : m < n => g[m] < g[n]
  IN  [n \in DOMAIN f |-> [h |-> h, i |-> f[n]]]

\* C13: applying a block yields one row per transaction that satisfies its
\* variant's rule, in block order, and none for any other transaction (one row
\* for a transfer between two watched addresses); a block without relevant
\* transaction yields no row and only sets the height.
C13_BlockApplier ==
  /\ [](\A r \in txsTable : r.i \in RelevantAt(r.h))
  /\ [][/\ \A h \in Heights :
            /\ (lives[h].pc = "none" /\ lives'[h].pc = "ins") => RelevantAt(h) # {}
            /\ (lives[h].pc = "none" /\ lives'[h].pc = "persist") =>
                  /\ RelevantAt(h) = {} /\ txsTable' = txsTable
                  /\ currentHeight' = h /\ ~lastUpdate'.data
            /\ (lives[h].pc = "ins" /\ lives'[h].pc = "balq") =>
                  /\ {r.i : r \in {q \in txsTable' : q.h = h /\ q.via = "live"}} = RelevantAt(h)
                  /\ currentHeight' = h
            /\ (lives[h].pc = "balw" /\ lives'[h].pc = "persist") =>
                  lastUpdate'.txs = ExpectedRows(h)
        /\ \A t \in TaskIds, h \in Heights :
            /\ (tasks[t].cbs[h].pc = "none" /\ tasks'[t].cbs[h].pc = "ins") => RelevantAt(h) # {}
            /\ (tasks[t].pc = "range" /\ tasks[t].next = h /\ tasks'[t].next = h + 1
                   /\ tasks'[t].cbs[h].pc # "ins") =>
                  /\ RelevantAt(h) = {} /\ txsTable' = txsTable
                  /\ currentHeight' = h /\ tasks'[t].txs = tasks[t].txs
            /\ (tasks[t].cbs[h].pc = "ins" /\ tasks'[t].cbs[h].pc = "persist1") =>
                  /\ {r.i : r \in {q \in txsTable' : q.h = h /\ q.by = t /\ q.via = "range"}}
                       = RelevantAt(h)
                  /\ currentHeight' = h
                  /\ Running(tasks[t]) => tasks'[t].txs = tasks[t].txs \o ExpectedRows(h)
        /\ \A t \in TaskIds :
            (/\ tasks[t].pc = "drain"
             /\ \/ tasks'[t].pc = "persist"
                \/ tasks'[t].pc = "drain" /\ tasks'[t].k > tasks[t].k) =>
              tasks'[t].txs = tasks[t].txs \o ExpectedRows(TaskArr(t)[tasks[t].k])
        /\ \A r \in txsTable' \ txsTable :
              \A j \in RelevantAt(r.h) :
                j < r.i => [h |-> r.h, i |-> j, by |-> r.by, via |-> r.via] \in txsTable]_vars

\* C13 witness: block 1 is a single transfer between the two watched addresses;
\* the sub_msg handler applied it and reported exactly one row.
C13_Witness ==
  /\ blocks[1] = <<TransferTxV0("A", "B")>>
  /\ lives[1].pc = "persist" /\ currentHeight = 1
  /\ lastUpdate.data /\ lastUpdate.txs = <<[h |-> 1, i |-> 1]>>

\* C14: when a balance query fails, nothing is written to the persisted
\* balance; inside a catch-up the attempt ends as a failure in that step: the
\* status is left as it is, no update is emitted (the attempt has emitted no
\* data update), the pending queue is cleared and a retry timeout is scheduled.
C14_BalanceFailure ==
  [][/\ \A t \in TaskIds :
          (tasks[t].pc = "balq" /\ tasks'[t].pc \notin {"balq", "balw"}) =>
            /\ tasks'[t].pc = "failed" /\ tasks'[t].nData = 0
            /\ dbBalance' = dbBalance
            /\ syncStatus' = syncStatus
            /\ nEmits' = nEmits
            /\ pendingBlocks' = <<>>
            /\ fullSyncRetryTimer' \in timers' \ timers
            /\ fullSyncInProgress' = FALSE
     /\ \A h \in Heights :
          (lives[h].pc = "balq" /\ lives'[h].pc \notin {"balq", "balw"}) =>
            dbBalance' = dbBalance /\ nEmits' = nEmits]_vars

\* C14 witness: the first attempt failed at its balance queries on the open
\* transport, with a pushed block in the queue; its retry timeout is pending
\* and nothing was written or reported.
C14_Witness ==
  /\ open /\ nCloses = 0
  /\ tasks[1].pc = "failed" /\ tasks[1].at = "balq"
  /\ 1 \in discarded
  /\ pendingBlocks = <<>>
  /\ fullSyncRetryTimer \in timers
  /\ dbBalance = 0 /\ ~lastUpdate.data /\ syncStatus = InProgress

\* C15: a pushed block applied while the status is Complete gets exactly one
\* update, with data if and only if a transaction of it matched, and its
\* handler always ends by persisting the height, the value persisted being
\* that block's height.
C15_LiveUpdate ==
  [][\A h \in Heights :
       /\ (lives[h].pc = "none" /\ lives'[h].pc = "persist") =>
             /\ nEmits' = nEmits + 1
             /\ lastUpdate'.data <=> RelevantAt(h) # {}
       /\ (lives[h].pc = "balw" /\ lives'[h].pc = "persist") =>
             /\ nEmits' = nEmits + 1
             /\ lastUpdate'.data /\ RelevantAt(h) # {}
       /\ (lives[h].pc \notin {"none", "done"} /\ lives'[h].pc = "done") =>
             /\ lives[h].pc = "persist" /\ lives[h].nEmit = 1
             /\ dbHeight' = h]_vars

\* C16: when the sub_msg handler ends in its catch block, that block has not
\* advanced the height: the handler persisted nothing, and the in-memory
\* height is not that block's height (unless a catch-up range applied the
\* same block meanwhile).
C16_LiveApplyError ==
  [][\A h \in Heights :
       (lives[h].pc \notin {"none", "persist", "done"} /\ lives'[h].pc = "done") =>
         /\ dbHeight' = dbHeight
         /\ currentHeight' = h => \E r \in txsTable : r.h = h /\ r.via # "live"]_vars


\* The application of block h, which carries a transaction of an unrecognized
\* variant, has raised the error: caught in the live handler, as the rejection
\* of a range callback, or out of the drain loop.
Threw(h) ==
  /\ FirstUnknown(h, 1) # 0
  /\ \/ lives[h].pc = "done"
     \/ \E t \in TaskIds : tasks[t].cbs[h].pc = "rejected"
     \/ \E t \in TaskIds : tasks[t].at = "drain" /\ tasks[t].val = h

\* C17: a block that carries a transaction of an unrecognized variant is never
\* passed over: once its application has raised the error, the local height is
\* below that block's height, and stays below it through later range, drain
\* and live-push events.
C17_UnknownVariant == \A h \in Heights : Threw(h) => currentHeight < h


\* C18: when the transport is lost, in one step: no retry timer stays pending
\* and the timer slot is empty, the in-progress flag is cleared, the status is
\* Connecting and exactly one update, carrying the status only, is emitted; the
\* local height, the persisted height, the persisted balance and the pending
\* queue keep their values.
C18_TransportLost ==
  [][(open /\ ~open') =>
       /\ timers' = {}
       /\ fullSyncRetryTimer' = 0
       /\ ~fullSyncInProgress'
       /\ syncStatus' = Connecting
       /\ nEmits' = nEmits + 1
       /\ lastUpdate' = StatusUpdate(Connecting)
       /\ UNCHANGED <<currentHeight, dbHeight, dbBalance, pendingBlocks>>]_vars


\* C19: at most one retry timer is pending at any instant, and a pending timer
\* is the one the retry-timer slot references (no timer is orphaned), for
\* every interleaving of open, close, timer and catch-up-failure events.
C19_OneRetryTimer ==
  /\ Cardinality(timers) <= 1
  /\ \A id \in timers : fullSyncRetryTimer = id


\* Range block h of frame t has matched rows, and the callback that applies it
\* has not yet seen its updateSyncHeight complete.
PersistPending(t, h) ==
  /\ BlockRows(h) # <<>>
  /\ tasks[t].cbs[h].pc \in {"ins", "persist1"}

\* C20: in the range phase of a catch-up, when a range block produces at least
\* one matched row, its height has been persisted before the application of
\* the next range block begins; once that persist has completed the persisted
\* height is not below the block, so a restart does not fetch it again.
C20_RangePersist ==
  [][\A t \in TaskIds, h \in Heights :
       /\ (tasks[t].pc = "range" /\ tasks[t].next = h + 1 /\ tasks'[t].next = h + 2) =>
            ~PersistPending(t, h)
       /\ (tasks[t].cbs[h].pc = "persist1" /\ tasks'[t].cbs[h].pc # "persist1") =>
            dbHeight' >= h]_vars


\* C21: the status is consistent with the transport: status Complete implies
\* that the transport is open and no catch-up is in flight, and while the
\* transport is closed (from a close event to the next open event) the status
\* is Connecting.
C21_StatusConsistent ==
  /\ syncStatus = Complete => (open /\ \A t \in TaskIds : ~InCatchUp(t))
  /\ (~open /\ nCloses > 0) => syncStatus = Connecting


\* C22: after a close followed by an open the subscription is set up again on
\* the reopened transport before the catch-up that runs on it: the status is
\* never Complete on a reopened connection on which the remote has no
\* subscription of this client and no attempt is left to ask for one, even
\* when no request has failed on a connection that was up.
C22_Resubscribed ==
  (/\ syncStatus = Complete /\ open /\ nCloses > 0 /\ nFails = 0
   /\ \A t \in TaskIds : ~Running(tasks[t])) => subscribed


\* Block h has reached the synchronizer: as a push (buffered or handled) or in
\* a range callback that has not finished.
Delivered(h) ==
  \/ lives[h].pc # "none"
  \/ applies[h] > 0
  \/ \E n \in 1..Len(pendingBlocks) : pendingBlocks[n] = h
  \/ \E t \in TaskIds : tasks[t].cbs[h].pc # "none"

\* Every matching transaction of block h has a row in the txs table.
RowsInserted(h) == \A i \in RelevantAt(h) : \E r \in txsTable : r.h = h /\ r.i = i

\* C23: the persisted height is never ahead of row insertion: in every
\* reachable state, every block delivered to the synchronizer whose height is
\* at most the persisted height has the rows of all its matching transactions
\* inserted.
C23_PersistBehindRows ==
  \A h \in Heights : (Delivered(h) /\ h <= dbHeight) => RowsInserted(h)


\* C24: Settings.save is crash-safe: when the primary file holds a complete
\* image as save starts, then at every point of save one of the primary and
\* the backup file holds a complete image, the previous one or the new one,
\* and load with that image's password returns its settings; a load that
\* reads the backup puts it back at the primary location and returns it.
C24_SaveCrashSafe ==
  /\ []((InSave /\ job.pre) =>
          \E f \in {primary, backup} :
            /\ IsComplete(f)
            /\ f \in {job.prev, job.data}
            /\ loadResult(primary, backup, f.key) = [ok |-> TRUE, data |-> f.data])
  /\ [][(spc = "load_restore" /\ spc' = "idle" /\ nCrashes' = nCrashes) =>
          /\ IsComplete(backup)
          /\ primary' = backup
          /\ ret' = [ok |-> TRUE, data |-> backup.data]]_vars

\* C24 witness: the process ended inside save's write of the new image; load
\* then found the primary unreadable, moved it aside, restored the previous
\* image from the backup and returned it.
C24_Witness ==
  /\ spc = "idle" /\ nCrashes = 1
  /\ lastCrash.at = "save_write" /\ lastCrash.pre
  /\ aside.there /\ aside.len < ImageLen
  /\ IsComplete(primary) /\ backup = NoFile
  /\ ret = [ok |-> TRUE, data |-> primary.data]

=============================================================================
